---- MODULE Spec2Model ----
(***************************************************************************)
(* Day-2 conference seating: SeatingPlanGenerator (guest synthesis,        *)
(* shuffle, deal, verification) and the Streamlit page main() that keeps   *)
(* the current plan in st.session_state.  Source: src/seating.py.          *)
(***************************************************************************)
EXTENDS Integers, Sequences, FiniteSets, TLC

VARIABLES
    uploaded_file,   \* the file in the st.file_uploader widget (None: no file)
    session_state,   \* st.session_state: a map that may hold the key "day2_df"
    ui,              \* what the last run of main() showed through st.info/success/error
    generator,       \* the SeatingPlanGenerator instance (self.*), None before construction
    combined_df,     \* the shuffled frame of the latest create_day2_seating call (line 59)
    day2_df,         \* the value the latest create_day2_seating call returned (None: no call yet)
    verdict          \* how the latest verify_seating_plan call ended (None: no call yet)

vars == <<uploaded_file, session_state, ui, generator, combined_df, day2_df, verdict>>

-----------------------------------------------------------------------------
(* Bounds of the model.                                                    *)

MaxRoster == 2       \* longest roster
MaxGuests == 2       \* largest num_guests given to the constructor
MaxTables == 2       \* largest num_tables given to the constructor
MaxTableSize == 2    \* largest table_size given to the constructor
\* main() builds the generator with the defaults of __init__ (7 guests, 9
\* tables, 7 seats).  The page model keeps that shape (guests are added, the
\* tables hold roster and guests without overflow) with scaled-down numbers,
\* so that the set of shuffles stays enumerable.
PageGuests == 2
PageTables == 2
PageTableSize == 2

-----------------------------------------------------------------------------
(* Values.                                                                 *)

\* Python's None / an optional value: the empty or the one-element sequence.
None == <<>>
Some(x) == <<x>>

\* The Name values a roster cell may hold.  "Guest 1" is an ordinary string
\* a CSV may contain.
Names == {"Alice", "Bob", "Guest 1"}

\* pandas' missing value: the Name of a row whose frame had no Name column
\* before it was concatenated with one that has.
NaN == "NaN"

\* f"Guest {i}"
GuestLabels == <<"Guest 1", "Guest 2", "Guest 3", "Guest 4", "Guest 5", "Guest 6", "Guest 7", "Guest 8">>

FormatGuestName(i) == GuestLabels[i]

\* A row of the uploaded CSV: Table No. / Seat No. are not yet the day-2
\* values (0 stands for the empty or day-1 content of the cell).
AttendeeRow(name) ==
    [Name |-> name, BusinessTitle |-> "Staff", TableNo |-> 0, SeatNo |-> 0]

\* A DataFrame: whether it has a Name column, and its rows in order.
DataFrame(has_name, rows) == [has_name |-> has_name, rows |-> rows]

SeqsUpTo(S, n) == UNION {[1..k -> S] : k \in 0..n}

\* Rosters with a Name column, and rosters without one (k rows, k >= 1).
Rosters ==
    {DataFrame(TRUE, [i \in DOMAIN ns |-> AttendeeRow(ns[i])]) : ns \in SeqsUpTo(Names, MaxRoster)}
    \cup {DataFrame(FALSE, [i \in 1..k |-> AttendeeRow(NaN)]) : k \in 1..MaxRoster}

\* An uploaded file: bytes pandas cannot parse, or a CSV that parses to a roster.
Files ==
    {[parses |-> FALSE, frame |-> DataFrame(FALSE, <<>>)]}
    \cup {[parses |-> TRUE, frame |-> r] : r \in Rosters}

-----------------------------------------------------------------------------
(* SeatingPlanGenerator.generate_guests                                    *)

GuestRecord(i) ==
    [Name |-> FormatGuestName(i), BusinessTitle |-> "Guest", TableNo |-> 0, SeatNo |-> 0]

\* range(1, num_guests) instead of range(1, num_guests + 1)
GenerateGuestsShort(num_guests) ==
    DataFrame(num_guests > 1, [i \in 1..(num_guests - 1) |-> GuestRecord(i)])

\* pd.DataFrame([]) has no columns at all
GenerateGuests(num_guests) ==
    DataFrame(num_guests > 0, [i \in 1..num_guests |-> GuestRecord(i)])

\* SeatingPlanGenerator.__init__
SeatingPlanGenerator(attendees_df, num_guests, num_tables, table_size) ==
    [attendees_df |-> attendees_df,
     num_guests   |-> num_guests,
     num_tables   |-> num_tables,
     table_size   |-> table_size,
     guests       |-> GenerateGuests(num_guests)]

-----------------------------------------------------------------------------
(* SeatingPlanGenerator.create_day2_seating                                *)

\* pd.concat([self.attendees_df, self.guests], ignore_index=True), the first
\* roster row dropped
ConcatDropFirst(attendees_df, guests) ==
    DataFrame(attendees_df.has_name \/ guests.has_name,
              (IF attendees_df.rows = <<>> THEN <<>> ELSE Tail(attendees_df.rows))
                  \o guests.rows)

\* pd.concat([self.attendees_df, self.guests], ignore_index=True): the union
\* of the columns, the rows of the first frame followed by the second's.
Concat(attendees_df, guests) ==
    DataFrame(attendees_df.has_name \/ guests.has_name,
              attendees_df.rows \o guests.rows)

\* The outcomes of the shuffle of a frame of n rows.
Shuffles(n) == Permutations(1..n)

\* combined_df.sample(frac=1).reset_index(drop=True) with outcome perm
Sample(df, perm) ==
    DataFrame(df.has_name, [i \in DOMAIN df.rows |-> df.rows[perm[i]]])

\* the table is left only once it holds more than table_size members
NextTableLate(len, table_number, table_size, num_tables) ==
    LET advanced == IF len > table_size THEN table_number + 1 ELSE table_number
    IN  IF advanced > num_tables THEN 1 ELSE advanced

\* Lines 68-71: the table to deal the next attendee to, given the length of
\* the current table after the append.
NextTable(len, table_number, table_size, num_tables) ==
    LET advanced == IF len = table_size THEN table_number + 1 ELSE table_number
    IN  IF advanced > num_tables THEN 1 ELSE advanced

\* Lines 62-71: the loop over combined_df.iterrows(), from row i on.  tables
\* maps a table number to its members; a key of the defaultdict that was
\* never touched is the empty list here.
RECURSIVE Deal(_, _, _, _, _, _)
Deal(rows, i, tables, table_number, table_size, num_tables) ==
    IF i > Len(rows) THEN tables
    ELSE LET appended == [tables EXCEPT ![table_number] = Append(@, rows[i])]
         IN  Deal(rows, i + 1, appended,
                  NextTable(Len(appended[table_number]), table_number, table_size, num_tables),
                  table_size, num_tables)

\* enumerate(members, start=0)
AssignSeatsFromZero(table_no, members) ==
    [k \in DOMAIN members |-> [members[k] EXCEPT !.TableNo = table_no, !.SeatNo = k - 1]]

\* Lines 76-80: the members of one table, numbered by enumerate(members, start=1).
AssignSeats(table_no, members) ==
    [k \in DOMAIN members |-> [members[k] EXCEPT !.TableNo = table_no, !.SeatNo = k]]

\* Lines 74-80: tables.items() in insertion order; the keys were inserted in
\* the order 1, 2, ... in which the deal first reached them.
RECURSIVE SeatRows(_, _, _)
SeatRows(tables, table_no, num_tables) ==
    IF table_no > num_tables THEN <<>>
    ELSE AssignSeats(table_no, tables[table_no]) \o SeatRows(tables, table_no + 1, num_tables)

\* create_day2_seating on generator self with shuffle outcome perm.
\* pd.DataFrame(day2_seating) of an empty list has no columns.
CreateDay2Seating(self, perm) ==
    LET shuffled    == Sample(Concat(self.attendees_df, self.guests), perm)
        tables      == Deal(shuffled.rows, 1, [t \in 1..self.num_tables |-> <<>>], 1,
                            self.table_size, self.num_tables)
        day2_seating == SeatRows(tables, 1, self.num_tables)
    IN  DataFrame(shuffled.has_name /\ day2_seating # <<>>, day2_seating)

\* The number of rows create_day2_seating shuffles.
CombinedLen(self) == Len(Concat(self.attendees_df, self.guests).rows)

-----------------------------------------------------------------------------
(* SeatingPlanGenerator.verify_seating_plan                                *)

NameColumn(df) == [i \in DOMAIN df.rows |-> df.rows[i].Name]

\* df.duplicated(subset=['Name'], keep=False) selects the rows whose Name
\* occurs in some other row too (missing values count as equal).
DuplicatedNames(names) ==
    LET IsDup(i) == \E j \in DOMAIN names : j # i /\ names[j] = names[i]
        RECURSIVE Pick(_)
        Pick(i) == IF i > Len(names) THEN <<>>
                   ELSE (IF IsDup(i) THEN <<names[i]>> ELSE <<>>) \o Pick(i + 1)
    IN  Pick(1)

\* the names of the duplicated rows, not reduced to the distinct ones
UniqueKeepAll(names) == names

\* Series.unique(): the distinct values in order of first appearance.
Unique(names) ==
    LET RECURSIVE Go(_)
        Go(i) == IF i > Len(names) THEN <<>>
                 ELSE (IF \E j \in 1..(i - 1) : names[j] = names[i] THEN <<>> ELSE <<names[i]>>)
                      \o Go(i + 1)
    IN  Go(1)

Range(s) == {s[i] : i \in DOMAIN s}

Returned(is_valid, message, names, missing) ==
    [outcome |-> "returned", is_valid |-> is_valid, message |-> message,
     names |-> names, missing |-> missing, exception |-> ""]

Raised(exception) ==
    [outcome |-> "raised", is_valid |-> FALSE, message |-> "",
     names |-> <<>>, missing |-> {}, exception |-> exception]

\* verify_seating_plan(self, day2_df).  The message is its fixed text, the
\* joined names of the duplicate message (in order) and the joined set of
\* the missing message.
\*  - day2_df['Name'] of a frame without a Name column raises KeyError
\*    (line 94, at the latest line 100);
\*  - ', '.join of a sequence that holds the missing value raises TypeError;
\*  - self.attendees_df['Name'] of a roster without that column raises KeyError.
VerifySeatingPlan(self, plan) ==
    IF ~plan.has_name THEN Raised("KeyError")
    ELSE LET duplicates == DuplicatedNames(NameColumn(plan))
         IN  IF duplicates # <<>>
             THEN IF NaN \in Range(duplicates)
                  THEN Raised("TypeError")
                  ELSE Returned(FALSE, "Duplicate entries found: ", Unique(duplicates), {})
             ELSE IF ~self.attendees_df.has_name THEN Raised("KeyError")
             ELSE LET day1_names == Range(NameColumn(self.attendees_df))
                      day2_names == Range(NameColumn(plan))
                      missing_names == day1_names \ day2_names
                  IN  IF missing_names # {}
                      THEN Returned(FALSE, "Missing participants from Day 1: ", <<>>, missing_names)
                      ELSE Returned(TRUE, "Seating plan is valid.", <<>>, {})

-----------------------------------------------------------------------------
(* The generator on its own: one instance, built from any roster and any   *)
(* configuration within the bounds, whose two methods are called.          *)

NoMessage == [level |-> "none", text |-> ""]

Init ==
    /\ \E r \in Rosters, g \in 0..MaxGuests, t \in 1..MaxTables, s \in 1..MaxTableSize :
           generator = Some(SeatingPlanGenerator(r, g, t, s))
    /\ combined_df = None
    /\ day2_df = None
    /\ verdict = None
    /\ uploaded_file = None
    /\ session_state = [k \in {} |-> None]
    /\ ui = NoMessage

\* A call of create_day2_seating: any shuffle outcome.  The plan returned
\* has not been verified yet.  The method reads only self, which no method
\* changes, so a second call on the same instance returns what a first call
\* can return: a behaviour holds one call, and the initial states and the
\* shuffle outcomes range over all of them.
CallCreateDay2Seating ==
    /\ generator # None
    /\ day2_df = None
    /\ \E perm \in Shuffles(CombinedLen(generator[1])) :
           /\ combined_df' = Some(Sample(Concat(generator[1].attendees_df, generator[1].guests), perm))
           /\ day2_df' = Some(CreateDay2Seating(generator[1], perm))
    /\ verdict' = None
    /\ UNCHANGED <<uploaded_file, session_state, ui, generator>>

\* A call of verify_seating_plan on the plan create_day2_seating returned.
CallVerifySeatingPlan ==
    /\ generator # None
    /\ day2_df # None
    /\ verdict' = Some(VerifySeatingPlan(generator[1], day2_df[1]))
    /\ UNCHANGED <<uploaded_file, session_state, ui, generator, combined_df, day2_df>>

Next ==
    \/ CallCreateDay2Seating
    \/ CallVerifySeatingPlan

Spec == Init /\ [][Next]_vars

-----------------------------------------------------------------------------
(* The page: main() runs from top to bottom on every interaction.          *)

HasPlan(state) == "day2_df" \in DOMAIN state /\ state["day2_df"] # None

\* One run of main() with the file of the widget, button_clicked telling
\* whether this run was caused by the Generate/Randomize button, and perm
\* the shuffle outcome if create_day2_seating is called.
\*  - line 119/167: without a file only the hint is shown;
\*  - line 122: read_csv raises on an unparsable file, the except clause of
\*    line 164 shows the error and nothing else of the body has run;
\*  - lines 129-133: the generator is built with the default configuration
\*    and the key day2_df is created as None if absent;
\*  - lines 136-145: on a click the new plan is stored in the session
\*    state, then verified; a raise of verify_seating_plan leaves through the
\*    except clause after the store.
RunMain(file, button_clicked, perm) ==
    IF file = None
    THEN /\ ui' = [level |-> "info", text |-> "Please upload a CSV file to begin."]
         /\ UNCHANGED <<session_state, generator, combined_df, day2_df, verdict>>
    ELSE IF ~file[1].parses
    THEN /\ ui' = [level |-> "error", text |-> "An error occurred while processing the file: "]
         /\ UNCHANGED <<session_state, generator, combined_df, day2_df, verdict>>
    ELSE LET self == SeatingPlanGenerator(file[1].frame, PageGuests, PageTables, PageTableSize)
             state0 == IF "day2_df" \in DOMAIN session_state
                       THEN session_state
                       ELSE [k \in {"day2_df"} |-> None]
             plan == CreateDay2Seating(self, perm)
             result == VerifySeatingPlan(self, plan)
         IN  /\ generator' = Some(self)
             /\ IF ~button_clicked
                THEN /\ session_state' = state0
                     /\ ui' = NoMessage
                     /\ UNCHANGED <<combined_df, day2_df, verdict>>
                ELSE /\ combined_df' = Some(Sample(Concat(self.attendees_df, self.guests), perm))
                     /\ day2_df' = Some(plan)
                     /\ verdict' = Some(result)
                     /\ IF result.outcome = "raised"
                        THEN /\ session_state' = [state0 EXCEPT !["day2_df"] = Some(plan)]
                             /\ ui' = [level |-> "error",
                                       text |-> "An error occurred while processing the file: "]
                        ELSE IF result.is_valid
                        THEN /\ session_state' = [state0 EXCEPT !["day2_df"] = Some(plan)]
                             /\ ui' = [level |-> "success", text |-> result.message]
                        ELSE /\ session_state' = [state0 EXCEPT !["day2_df"] = None]
                             /\ ui' = [level |-> "error", text |-> result.message]

InitPage ==
    /\ uploaded_file = None
    /\ session_state = [k \in {} |-> None]
    /\ ui = [level |-> "info", text |-> "Please upload a CSV file to begin."]
    /\ generator = None
    /\ combined_df = None
    /\ day2_df = None
    /\ verdict = None

\* The user puts a file into the uploader: the script reruns, no button clicked.
UploadFile ==
    \E f \in Files :
        /\ uploaded_file # Some(f)
        /\ uploaded_file' = Some(f)
        /\ RunMain(Some(f), FALSE, <<>>)

\* The user removes the file from the uploader: the script reruns.
RemoveFile ==
    /\ uploaded_file # None
    /\ uploaded_file' = None
    /\ RunMain(None, FALSE, <<>>)

\* The user clicks "Generate/Randomize Day 2 Seating Plan".  The button is
\* on the page only if the last run reached line 136, that is, if the file
\* was read.
ClickGenerate ==
    /\ uploaded_file # None
    /\ uploaded_file[1].parses
    /\ UNCHANGED uploaded_file
    /\ \E perm \in Shuffles(CombinedLen(SeatingPlanGenerator(uploaded_file[1].frame,
                                            PageGuests, PageTables, PageTableSize))) :
           RunMain(uploaded_file, TRUE, perm)

NextPage ==
    \/ UploadFile
    \/ RemoveFile
    \/ ClickGenerate

SpecPage == InitPage /\ [][NextPage]_vars

-----------------------------------------------------------------------------
(* Claims.  Self, Roster and Plan are read only where the generator and    *)
(* the plan exist.                                                         *)

Self == generator[1]
Roster == Self.attendees_df
Plan == day2_df[1]
Verdict == verdict[1]

NameCount(rows, n) == Cardinality({i \in DOMAIN rows : rows[i].Name = n})
SeatedAt(rows, t) == SelectSeq(rows, LAMBDA r : r.TableNo = t)
Occupants(t) == Len(SeatedAt(Plan.rows, t))
Total == Len(Roster.rows) + Self.num_guests
Capacity == Self.num_tables * Self.table_size
AllNames == Names \cup Range(GuestLabels) \cup {NaN}
RosterDistinct == \A n \in AllNames : NameCount(Roster.rows, n) <= 1
RosterDuplicates == {n \in AllNames : NameCount(Roster.rows, n) >= 2}
Unseated(r) == [r EXCEPT !.TableNo = 0, !.SeatNo = 0]
Min(a, b) == IF a < b THEN a ELSE b

\* a is b with some elements left out
RECURSIVE IsSubsequence(_, _)
IsSubsequence(a, b) ==
    IF a = <<>> THEN TRUE
    ELSE IF b = <<>> THEN FALSE
    ELSE IF Head(a) = Head(b) THEN IsSubsequence(Tail(a), Tail(b))
    ELSE IsSubsequence(a, Tail(b))

\* C1: whenever the roster has a Name column with pairwise distinct values,
\* verify_seating_plan on the plan create_day2_seating returned answers
\* (True, "Seating plan is valid."), whatever the configuration and shuffle.
\* Stated for rosters of at least one row: the plan of an empty roster and
\* no guests is a frame without columns, on which verification raises.
C1_DistinctRosterVerifies ==
    (verdict # None /\ Roster.has_name /\ Roster.rows # <<>> /\ RosterDistinct)
        => /\ Verdict.outcome = "returned"
           /\ Verdict.is_valid
           /\ Verdict.message = "Seating plan is valid."

\* C2: the plan holds len(R) + num_guests records and every name occurs in
\* it as often as in the roster, plus once if it is one of Guest 1..Guest
\* num_guests.
C2_RecordsPreserved ==
    day2_df # None
        => /\ Len(Plan.rows) = Total
           /\ \A n \in AllNames :
                  NameCount(Plan.rows, n)
                      = NameCount(Roster.rows, n)
                        + (IF \E i \in 1..Self.num_guests : n = GuestLabels[i] THEN 1 ELSE 0)

C2_Witness ==
    /\ day2_df # None
    /\ Len(Roster.rows) >= 2
    /\ Self.num_guests >= 1
    /\ Total > Capacity
    /\ Self.num_tables >= 2

\* C3: when the records exceed num_tables * table_size, no table number
\* outside 1..num_tables is used and the records beyond capacity go to the
\* tables 1..overflow_count in turn, each of which then holds more than
\* table_size occupants (with at least num_tables records beyond capacity,
\* every table does).  Stated for rosters with distinct names.
C3_OverflowSpreadsOverTables ==
    (day2_df # None /\ Roster.has_name /\ RosterDistinct /\ Total > Capacity)
        => /\ \A i \in DOMAIN Plan.rows : Plan.rows[i].TableNo \in 1..Self.num_tables
           /\ \A t \in 1..Min(Total - Capacity, Self.num_tables) :
                  Occupants(t) > Self.table_size

\* C4: when the records fit (len(R) + num_guests <= num_tables * table_size),
\* every table holds at most table_size occupants, every Table No. is in
\* 1..num_tables and every Seat No. in 1..table_size.
C4_WithinCapacity ==
    (day2_df # None /\ Total <= Capacity)
        => /\ \A t \in 1..Self.num_tables : Occupants(t) <= Self.table_size
           /\ \A i \in DOMAIN Plan.rows :
                  /\ Plan.rows[i].TableNo \in 1..Self.num_tables
                  /\ Plan.rows[i].SeatNo \in 1..Self.table_size

C4_Witness ==
    /\ day2_df # None
    /\ Total = Capacity
    /\ Self.num_tables >= 2
    /\ Self.table_size >= 2
    /\ Occupants(Self.num_tables) = Self.table_size

\* C5: when some Name occurs more than once in the roster, verification of
\* the created plan answers False with the duplicate-entries message, whose
\* names are exactly the names that occur more than once in the plan (the
\* roster's duplicates among them, a guest name too if the roster holds
\* it), each listed once.
C5_DuplicateReported ==
    (verdict # None /\ Roster.has_name /\ RosterDuplicates # {})
        => /\ Verdict.outcome = "returned"
           /\ ~Verdict.is_valid
           /\ Verdict.message = "Duplicate entries found: "
           /\ \A i, j \in DOMAIN Verdict.names : Verdict.names[i] = Verdict.names[j] => i = j
           /\ Range(Verdict.names) = {n \in AllNames : NameCount(Plan.rows, n) >= 2}
           /\ RosterDuplicates \subseteq Range(Verdict.names)

C5_Witness ==
    /\ verdict # None
    /\ Roster.has_name
    /\ RosterDuplicates # {}
    /\ Self.num_guests >= 1
    /\ Verdict.outcome = "returned"
    /\ Verdict.names = <<"Alice">>

\* C6: in every created plan the members of each table carry the seat
\* numbers 1..k in the order in which the shuffled frame dealt them to the
\* table, and no two records share a (Table No., Seat No.) pair.
C6_SeatsContiguous ==
    day2_df # None
        => /\ \A t \in 1..Self.num_tables :
                  LET members == SeatedAt(Plan.rows, t)
                  IN  /\ \A k \in DOMAIN members : members[k].SeatNo = k
                      /\ IsSubsequence([k \in DOMAIN members |-> Unseated(members[k])],
                                       combined_df[1].rows)
           /\ \A i, j \in DOMAIN Plan.rows :
                  (Plan.rows[i].TableNo = Plan.rows[j].TableNo
                   /\ Plan.rows[i].SeatNo = Plan.rows[j].SeatNo) => i = j

C6_Witness ==
    /\ day2_df # None
    /\ Self.num_tables >= 2
    /\ Occupants(1) >= 3
    /\ Occupants(2) >= 1
    /\ RosterDistinct

\* C7: whenever the current-plan slot holds a plan, it is the plan the most
\* recent generate request produced and verify_seating_plan accepted it.
C7_SlotHoldsLatestVerifiedPlan ==
    HasPlan(session_state)
        => /\ day2_df # None
           /\ session_state["day2_df"] = day2_df
           /\ verdict # None
           /\ Verdict.outcome = "returned"
           /\ Verdict.is_valid

\* C8: whenever the page shows the processing error of a malformed roster
\* (unparsable, or without the structure generation and verification
\* need), the current-plan slot holds no plan.
C8_MalformedInputLeavesNoPlan ==
    (ui.level = "error" /\ ui.text = "An error occurred while processing the file: ")
        => ~HasPlan(session_state)

\* C9: whenever the current-plan slot holds a plan and a roster is
\* uploaded, the plan contains every Name of that roster.  Stated for a
\* plan that verification accepted.
C9_SlotPlanCoversUploadedRoster ==
    (HasPlan(session_state) /\ verdict # None /\ Verdict.is_valid
         /\ uploaded_file # None
         /\ uploaded_file[1].parses /\ uploaded_file[1].frame.has_name)
        => Range(NameColumn(uploaded_file[1].frame))
               \subseteq Range(NameColumn(session_state["day2_df"][1]))

\* C10: verification of the plan the same generator created never answers
\* with the missing-participants message; when it answers False, it is
\* with the duplicate-entries message.
C10_CompletenessNeverFails ==
    verdict # None
        => /\ Verdict.missing = {}
           /\ Verdict.message # "Missing participants from Day 1: "
           /\ (Verdict.outcome = "returned" /\ ~Verdict.is_valid)
                  => Verdict.message = "Duplicate entries found: "

C10_Witness ==
    /\ verdict # None
    /\ Verdict.outcome = "returned"
    /\ Verdict.is_valid
    /\ Len(Roster.rows) >= 2
    /\ Self.num_guests >= 1

====
